---- MODULE Spec2Model ----
(***************************************************************************)
(* A model of pytorch-yolov3: the config-driven graph builder              *)
(* (blocks2modules, Darknet.__init__), the forward executor                *)
(* (Darknet.forward), the detection head's shape handling                  *)
(* (YOLOLayer.forward), the weight loader (Darknet.load_weights), the      *)
(* config parser (parse_config), and of main.py the greedy non-maximum     *)
(* suppression and the webcam loop with its two threads.                   *)
(*                                                                         *)
(* Layer indices, route references and cache keys are the Python values    *)
(* (0-based, negative = relative); TLA+ sequences are 1-based, so layer k  *)
(* is element k+1 of a sequence.                                           *)
(***************************************************************************)
EXTENDS Integers, Sequences, FiniteSets, TLC

VARIABLES
    \* ---- graph builder and forward executor (darknet.py) ----
    cfg,                    \* the block list as parse_config returned it
    net_channels,           \* net_info["channels"]
    blocks,                 \* self.blocks (route "layers" rewritten in place)
    pc,                     \* where the program is
    err,                    \* the exception that ended it ("" = none)
    i,                      \* loop index of the running loop (0-based)
    curr_out_channels,
    prev_layer_out_channels,
    out_channels,           \* the function-local of blocks2modules
    out_channels_list,
    modules_,               \* what blocks2modules built, per block
    blocks_to_cache,
    cached_outputs,
    x,                      \* the current tensor of forward
    bbox_list,
    hist,                   \* per executed layer: tensor before and after
    first_graph,            \* what an earlier construction built (<<>>: none)
    \* ---- weight loader (darknet.py) ----
    weights_len,            \* number of floats in the blob
    p,                      \* read position
    reads,                  \* parameter groups copied so far
    \* ---- detection head (darknet.py) ----
    yolo_in,                \* anchors and input shape
    yolo_out,               \* result of YOLOLayer.forward
    \* ---- non-maximum suppression (main.py) ----
    nms_in,                 \* candidates, threshold, class mode
    nms_pc,
    nms_keep,               \* idxs_to_keep of the first application
    nms_keep2,              \* idxs_to_keep of NMS applied to the kept ones
    \* ---- config parser (darknet.py) ----
    cfg_file,               \* f.readlines(): the raw lines of the file
    parse_pc,
    parse_err,              \* the exception that ended parse_config
    lines,                  \* the lines kept, stripped
    text_blocks,
    tb,                     \* index of the text block the loop is at
    parsed_blocks,          \* the local blocks of parse_config
    net_info,               \* <<>> is None
    \* ---- webcam loop and its two threads (main.py) ----
    cap_reads,              \* frames the capture has delivered so far
    getter,                 \* VideoGetter: grabbed, frame, stopped
    getter_pc,
    getter_ret,             \* the (grabbed, frame) a cap.read() returned
    shower,                 \* VideoShower: frame, stopped
    shower_pc,
    main_pc,
    main_frame,             \* the local frame of detect_in_cam
    writes,                 \* how often the main loop wrote shower.frame
    slot_write,             \* which of these writes shower.frame holds
    shown                   \* the writes whose frame imshow displayed

graphVars == <<cfg, net_channels, blocks, pc, err, i, curr_out_channels,
               prev_layer_out_channels, out_channels, out_channels_list,
               modules_, blocks_to_cache, cached_outputs, x, bbox_list, hist,
               first_graph>>
loadVars == <<weights_len, p, reads>>
yoloVars == <<yolo_in, yolo_out>>
nmsVars == <<nms_in, nms_pc, nms_keep, nms_keep2>>
parseVars == <<cfg_file, parse_pc, parse_err, lines, text_blocks, tb,
               parsed_blocks, net_info>>
camVars == <<cap_reads, getter, getter_pc, getter_ret, shower, shower_pc,
             main_pc, main_frame, writes, slot_write, shown>>
vars == <<graphVars, loadVars, yoloVars, nmsVars, parseVars, camVars>>

-----------------------------------------------------------------------------
(* Bounds of the model *)

MaxLayers == 3

-----------------------------------------------------------------------------
(* Python values *)

\* None, as the value of curr_out_channels before any layer set it.
None == -1

\* The local out_channels of blocks2modules before its first assignment.
Unbound == -2

\* list[k] of Python: k in -len..len-1, negative k counted from the end.
InPyRange(list, k) == k < Len(list) /\ k >= -Len(list)

PyAt(list, k) == IF k >= 0 THEN list[k + 1] ELSE list[Len(list) + k + 1]

-----------------------------------------------------------------------------
(* Blocks, as parse_config returns them *)

Block(t, f, ls, fr, bk, bv, sz) ==
    [type |-> t, filters |-> f, layers |-> ls, from |-> fr,
     bn_key |-> bk, bn_val |-> bv, size |-> sz]

Conv(f) == Block("convolutional", f, <<>>, 0, FALSE, 0, 1)
ConvBN(f, bk, bv, sz) == Block("convolutional", f, <<>>, 0, bk, bv, sz)
MaxPool == Block("maxpool", 0, <<>>, 0, FALSE, 0, 1)
Upsample == Block("upsample", 0, <<>>, 0, FALSE, 0, 1)
Yolo == Block("yolo", 0, <<>>, 0, FALSE, 0, 1)
Route(ls) == Block("route", 0, ls, 0, FALSE, 0, 1)
Shortcut(fr) == Block("shortcut", 0, <<>>, fr, FALSE, 0, 1)

\* The blocks the graph configurations are made of.
GraphBlocks ==
    {Conv(4), Conv(8), MaxPool, Upsample, Yolo}
    \cup {Route(ls) : ls \in {<<-1>>, <<-2>>, <<-3>>, <<0>>, <<1>>, <<2>>,
                              <<-1, -2>>, <<-2, -1>>, <<-1, 0>>}}
    \cup {Shortcut(fr) : fr \in {-3, -2, -1, 0}}

\* Scenario B: four convolutional layers with 8, 16, 8, 4 filters, then a
\* route with layers = -1, -4.
ScenarioB == <<Conv(8), Conv(16), Conv(8), Conv(4), Route(<<-1, -4>>)>>

\* A small network with every kind of layer: a residual shortcut, a route
\* over two layers and two detection heads.
SmallNet == <<Conv(4), Conv(8), Conv(4), Shortcut(-3), Route(<<-1, 1>>),
              Yolo, Upsample, Conv(8), MaxPool, Yolo>>

GraphConfigs ==
    UNION {[1..n -> GraphBlocks] : n \in 1..MaxLayers}
    \cup {ScenarioB, SmallNet}

NetChannels == {1, 3}

-----------------------------------------------------------------------------
(* Tensors, symbolically: which operation produced them from which inputs *)

Tensor(o, l, as) == [op |-> o, layer |-> l, args |-> as]
NoneTensor == Tensor("None", -1, <<>>)
InputTensor == Tensor("input", -1, <<>>)

\* self.modules_[i](x) for a convolutional, maxpool or upsample block.
ModuleCall(k, t) == Tensor("module", k, <<t>>)
\* torch.cat(ts, dim=1)
Cat(ts) == Tensor("cat", -1, ts)
\* a + b
Add(a, b) == Tensor("add", -1, <<a, b>>)
\* The decode of a detection layer: YOLOLayer k applied to t.
Decode(k, t) == Tensor("yolo", k, <<t>>)

-----------------------------------------------------------------------------
(* blocks2modules, one loop iteration per step *)

\* sum(out_channels_list[layer_idx] for layer_idx in block["layers"]),
\* evaluated left to right; err is the exception of the first failing term.
RECURSIVE RouteEvalLastOnly(_, _, _, _)
RouteEvalLastOnly(list, layers, j, acc) ==
    IF j > Len(layers) THEN [err |-> "", val |-> acc]
    ELSE IF ~InPyRange(list, layers[j]) THEN [err |-> "IndexError", val |-> 0]
    ELSE IF PyAt(list, layers[j]) = None THEN [err |-> "TypeError", val |-> 0]
    ELSE RouteEvalLastOnly(list, layers, j + 1, PyAt(list, layers[j]))

RECURSIVE RouteEval(_, _, _, _)
RouteEval(list, layers, j, acc) ==
    IF j > Len(layers) THEN [err |-> "", val |-> acc]
    ELSE IF ~InPyRange(list, layers[j]) THEN [err |-> "IndexError", val |-> 0]
    ELSE IF PyAt(list, layers[j]) = None THEN [err |-> "TypeError", val |-> 0]
    ELSE RouteEval(list, layers, j + 1, acc + PyAt(list, layers[j]))

\* assert out_channels == out_channels_list[i + block["from"]]
ShortcutAssertNoCheck(oc, list, k) ==
    IF oc = Unbound THEN "UnboundLocalError"
    ELSE IF ~InPyRange(list, k) THEN "IndexError"
    ELSE ""

ShortcutAssert(oc, list, k) ==
    IF oc = Unbound THEN "UnboundLocalError"
    ELSE IF ~InPyRange(list, k) THEN "IndexError"
    ELSE IF oc # PyAt(list, k) THEN "AssertionError"
    ELSE ""

\* The module built for a block: for a convolutional block the Conv2d and,
\* with "batch_normalize" in the block, the BatchNorm2d.
ConvModule(b, in_ch) ==
    [type |-> b.type, has_bn |-> b.bn_key, has_bias |-> ~b.bn_key,
     in_channels |-> in_ch, out_channels |-> b.filters, size |-> b.size]

OtherModule(b) ==
    [type |-> b.type, has_bn |-> FALSE, has_bias |-> FALSE,
     in_channels |-> 0, out_channels |-> 0, size |-> 0]

B2MRaise(e) ==
    /\ pc' = "raised"
    /\ err' = e
    /\ UNCHANGED <<cfg, net_channels, blocks, i, curr_out_channels,
                   prev_layer_out_channels, out_channels, out_channels_list,
                   modules_, blocks_to_cache, cached_outputs, x, bbox_list,
                   hist>>

\* The end of an iteration: modules.append(module), then the two updates.
B2MAppend(m, oc, curr) ==
    /\ modules_' = Append(modules_, m)
    /\ out_channels' = oc
    /\ curr_out_channels' = curr
    /\ prev_layer_out_channels' = curr
    /\ out_channels_list' = Append(out_channels_list, curr)
    /\ i' = i + 1
    /\ UNCHANGED <<cfg, net_channels, blocks, pc, err, blocks_to_cache,
                   cached_outputs, x, bbox_list, hist>>

B2MStep ==
    /\ UNCHANGED <<loadVars, yoloVars, nmsVars, parseVars, camVars,
                 first_graph>>
    /\ pc = "blocks2modules"
    /\ i < Len(blocks)
    /\ LET b == blocks[i + 1] IN
       CASE b.type = "convolutional" ->
              IF prev_layer_out_channels = None
              THEN B2MRaise("TypeError")
              ELSE B2MAppend(ConvModule(b, prev_layer_out_channels),
                             b.filters, b.filters)
         [] b.type = "route" ->
              LET r == RouteEval(out_channels_list, b.layers, 1, 0) IN
              IF r.err # "" THEN B2MRaise(r.err)
              ELSE B2MAppend(OtherModule(b), r.val, r.val)
         [] b.type = "shortcut" ->
              LET e == ShortcutAssert(out_channels, out_channels_list,
                                      i + b.from) IN
              IF e # "" THEN B2MRaise(e)
              ELSE B2MAppend(OtherModule(b), out_channels, out_channels)
         [] OTHER ->
              B2MAppend(OtherModule(b), out_channels, curr_out_channels)

\* return modules; Darknet.__init__ goes on to its own loop.
B2MReturn ==
    /\ UNCHANGED <<loadVars, yoloVars, nmsVars, parseVars, camVars,
                 first_graph>>
    /\ pc = "blocks2modules"
    /\ i = Len(blocks)
    /\ pc' = "init"
    /\ i' = 0
    /\ blocks_to_cache' = {}
    /\ UNCHANGED <<cfg, net_channels, blocks, err, curr_out_channels,
                   prev_layer_out_channels, out_channels, out_channels_list,
                   modules_, cached_outputs, x, bbox_list, hist>>

-----------------------------------------------------------------------------
(* Darknet.__init__: the cache set, one block per step *)

\* A route reference made absolute.
ResolveOffByOne(k, block_idx) ==
    IF block_idx < 0 THEN k + block_idx + 1 ELSE block_idx

\* Every reference taken as relative, resolved ones included.
ResolveAlwaysRelative(k, block_idx) ==
    IF block_idx <= 0 THEN k + block_idx ELSE block_idx - k

Resolve(k, block_idx) == IF block_idx < 0 THEN k + block_idx ELSE block_idx

ResolveLayers(k, layers) ==
    [j \in 1..Len(layers) |-> Resolve(k, layers[j])]

InitStep ==
    /\ UNCHANGED <<loadVars, yoloVars, nmsVars, parseVars, camVars,
                 first_graph>>
    /\ pc = "init"
    /\ i < Len(blocks)
    /\ LET b == blocks[i + 1] IN
       CASE b.type = "route" ->
              LET ls == ResolveLayers(i, b.layers) IN
              /\ blocks' = [blocks EXCEPT ![i + 1].layers = ls]
              /\ blocks_to_cache' =
                     blocks_to_cache \cup {ls[j] : j \in 1..Len(ls)}
         [] b.type = "shortcut" ->
              /\ blocks_to_cache' = blocks_to_cache \cup {i - 1, i + b.from}
              /\ UNCHANGED blocks
         [] OTHER ->
              UNCHANGED <<blocks, blocks_to_cache>>
    /\ i' = i + 1
    /\ UNCHANGED <<cfg, net_channels, pc, err, curr_out_channels,
                   prev_layer_out_channels, out_channels, out_channels_list,
                   modules_, cached_outputs, x, bbox_list, hist>>

InitReturn ==
    /\ UNCHANGED <<loadVars, yoloVars, nmsVars, parseVars, camVars,
                 first_graph>>
    /\ pc = "init"
    /\ i = Len(blocks)
    /\ pc' = "built"
    /\ UNCHANGED <<cfg, net_channels, blocks, err, i, curr_out_channels,
                   prev_layer_out_channels, out_channels, out_channels_list,
                   modules_, blocks_to_cache, cached_outputs, x, bbox_list,
                   hist>>

-----------------------------------------------------------------------------
(* Darknet.forward, one layer per step *)

ForwardStart ==
    /\ UNCHANGED <<loadVars, yoloVars, nmsVars, parseVars, camVars,
                 first_graph>>
    /\ pc = "built"
    /\ pc' = "forward"
    /\ i' = 0
    /\ cached_outputs' = [k \in blocks_to_cache |-> NoneTensor]
    /\ x' = InputTensor
    /\ bbox_list' = <<>>
    /\ hist' = <<>>
    /\ UNCHANGED <<cfg, net_channels, blocks, err, curr_out_channels,
                   prev_layer_out_channels, out_channels, out_channels_list,
                   modules_, blocks_to_cache>>

ForwardRaise(e) ==
    /\ pc' = "forward_raised"
    /\ err' = e
    /\ UNCHANGED <<cfg, net_channels, blocks, i, curr_out_channels,
                   prev_layer_out_channels, out_channels, out_channels_list,
                   modules_, blocks_to_cache, cached_outputs, x, bbox_list,
                   hist>>

RouteInputsReversed(cache, layers) ==
    [j \in 1..Len(layers) |-> cache[layers[Len(layers) + 1 - j]]]

\* The tensors a route concatenates, in the order of block["layers"].
RouteInputs(cache, layers) == [j \in 1..Len(layers) |-> cache[layers[j]]]

CollectFront(list, k, t) == <<Decode(k, t)>> \o list

\* bbox_list.append(bbox_xywhs)
Collect(list, k, t) == Append(list, Decode(k, t))

\* The end of an iteration: the cache write, and the next layer.
ForwardNext(nx, nbbox) ==
    /\ x' = nx
    /\ bbox_list' = nbbox
    /\ cached_outputs' = IF i \in DOMAIN cached_outputs
                         THEN [cached_outputs EXCEPT ![i] = nx]
                         ELSE cached_outputs
    /\ hist' = Append(hist, [layer |-> i, in |-> x, out |-> nx])
    /\ i' = i + 1
    /\ UNCHANGED <<cfg, net_channels, blocks, pc, err, curr_out_channels,
                   prev_layer_out_channels, out_channels, out_channels_list,
                   modules_, blocks_to_cache>>

ForwardStep ==
    /\ UNCHANGED <<loadVars, yoloVars, nmsVars, parseVars, camVars,
                 first_graph>>
    /\ pc = "forward"
    /\ i < Len(blocks)
    /\ LET b == blocks[i + 1] IN
       CASE b.type \in {"convolutional", "maxpool", "upsample"} ->
              ForwardNext(ModuleCall(i, x), bbox_list)
         [] b.type = "route" ->
              LET ts == RouteInputs(cached_outputs, b.layers) IN
              IF \E j \in 1..Len(ts) : ts[j] = NoneTensor
              THEN ForwardRaise("TypeError")
              ELSE ForwardNext(Cat(ts), bbox_list)
         [] b.type = "shortcut" ->
              LET a == cached_outputs[i - 1]
                  c == cached_outputs[i + b.from] IN
              IF a = NoneTensor \/ c = NoneTensor
              THEN ForwardRaise("TypeError")
              ELSE ForwardNext(Add(a, c), bbox_list)
         [] b.type = "yolo" ->
              ForwardNext(x, Collect(bbox_list, i, x))
         [] OTHER ->
              ForwardNext(x, bbox_list)

\* torch.cat(bbox_list, dim=0) and the return; torch.cat of an empty list
\* raises.
ForwardReturn ==
    /\ UNCHANGED <<loadVars, yoloVars, nmsVars, parseVars, camVars,
                 first_graph>>
    /\ pc = "forward"
    /\ i = Len(blocks)
    /\ IF bbox_list = <<>>
       THEN ForwardRaise("RuntimeError")
       ELSE /\ pc' = "done"
            /\ UNCHANGED <<cfg, net_channels, blocks, err, i,
                           curr_out_channels, prev_layer_out_channels,
                           out_channels, out_channels_list, modules_,
                           blocks_to_cache, cached_outputs, x, bbox_list,
                           hist>>

-----------------------------------------------------------------------------
(* The graph specification: construction, then one forward pass *)

GraphIdle ==
    /\ cfg = <<>>
    /\ net_channels = 0
    /\ blocks = <<>>
    /\ pc = "idle"
    /\ err = ""
    /\ i = 0
    /\ curr_out_channels = None
    /\ prev_layer_out_channels = None
    /\ out_channels = Unbound
    /\ out_channels_list = <<>>
    /\ modules_ = <<>>
    /\ blocks_to_cache = {}
    /\ cached_outputs = <<>>
    /\ x = NoneTensor
    /\ bbox_list = <<>>
    /\ hist = <<>>
    /\ first_graph = <<>>

\* Darknet.__init__ up to the call of blocks2modules, on the given blocks.
GraphStart(configs, channels) ==
    /\ cfg \in configs
    /\ net_channels \in channels
    /\ blocks = cfg
    /\ pc = "blocks2modules"
    /\ err = ""
    /\ i = 0
    /\ curr_out_channels = None
    /\ prev_layer_out_channels = net_channels
    /\ out_channels = Unbound
    /\ out_channels_list = <<>>
    /\ modules_ = <<>>
    /\ blocks_to_cache = {}
    /\ cached_outputs = <<>>
    /\ x = NoneTensor
    /\ bbox_list = <<>>
    /\ hist = <<>>
    /\ first_graph = <<>>

LoadIdle ==
    /\ weights_len = 0
    /\ p = 0
    /\ reads = <<>>

YoloIdle ==
    /\ yolo_in = [num_anchors |-> 0, num_samples |-> 0, num_predictions |-> 0,
                  h |-> 0, w |-> 0]
    /\ yolo_out = <<>>

NmsIdle ==
    /\ nms_in = <<>>
    /\ nms_pc = "idle"
    /\ nms_keep = <<>>
    /\ nms_keep2 = <<>>

\* parse_config not called.
ParseIdle ==
    /\ cfg_file = <<>>
    /\ parse_pc = "idle"
    /\ parse_err = ""
    /\ lines = <<>>
    /\ text_blocks = <<>>
    /\ tb = 0
    /\ parsed_blocks = <<>>
    /\ net_info = <<>>

\* detect_in_cam not called.
CamIdle ==
    /\ cap_reads = 0
    /\ getter = [grabbed |-> FALSE, frame |-> None, stopped |-> FALSE]
    /\ getter_pc = "idle"
    /\ getter_ret = [grabbed |-> FALSE, frame |-> None]
    /\ shower = [frame |-> None, stopped |-> FALSE]
    /\ shower_pc = "idle"
    /\ main_pc = "idle"
    /\ main_frame = None
    /\ writes = 0
    /\ slot_write = 0
    /\ shown = <<>>

InitGraph ==
    /\ GraphStart(GraphConfigs, NetChannels)
    /\ LoadIdle
    /\ YoloIdle
    /\ NmsIdle
    /\ ParseIdle
    /\ CamIdle

NextGraph ==
    \/ B2MStep
    \/ B2MReturn
    \/ InitStep
    \/ InitReturn
    \/ ForwardStart
    \/ ForwardStep
    \/ ForwardReturn

SpecGraph == InitGraph /\ [][NextGraph]_vars

\* The builder run a second time on the layer list: on the list the first
\* run left (self.blocks, its route references rewritten in place) or on
\* the list as it was parsed; what the first run built is kept to compare.
BuildAgain ==
    /\ UNCHANGED <<loadVars, yoloVars, nmsVars, parseVars, camVars>>
    /\ pc = "built"
    /\ first_graph = <<>>
    /\ first_graph' = <<[blocks |-> blocks,
                         out_channels_list |-> out_channels_list,
                         blocks_to_cache |-> blocks_to_cache,
                         modules_ |-> modules_]>>
    /\ blocks' \in {blocks, cfg}
    /\ pc' = "blocks2modules"
    /\ i' = 0
    /\ curr_out_channels' = None
    /\ prev_layer_out_channels' = net_channels
    /\ out_channels' = Unbound
    /\ out_channels_list' = <<>>
    /\ modules_' = <<>>
    /\ UNCHANGED <<cfg, net_channels, err, blocks_to_cache, cached_outputs,
                   x, bbox_list, hist>>

NextBuildTwice ==
    \/ B2MStep
    \/ B2MReturn
    \/ InitStep
    \/ InitReturn
    \/ BuildAgain

SpecBuildTwice == InitGraph /\ [][NextBuildTwice]_vars

\* Construction completed (pc = "raised" is a raise during construction).
Built == pc \in {"built", "forward", "done", "forward_raised",
                  "load", "loaded", "load_raised"}

-----------------------------------------------------------------------------
(* Darknet.load_weights, one layer per step *)

MaxLoadLayers == 3
MaxFloats == 12

\* The blocks the weight-loading configurations are made of: convolutional
\* blocks without batch_normalize, with batch_normalize=0 and with
\* batch_normalize=1, and blocks without weights.
LoadBlocks ==
    {ConvBN(f, bn[1], bn[2], 1) :
        f \in {1, 2}, bn \in {<<FALSE, 0>>, <<TRUE, 0>>, <<TRUE, 1>>}}
    \cup {ConvBN(1, FALSE, 0, 3), MaxPool, Route(<<-1>>)}

LoadConfigs == UNION {[1..n -> LoadBlocks] : n \in 1..MaxLoadLayers}

LoadNetChannels == {1}

\* One parameter group: the tensor copied into and its numel().
Group(nm, n) == [param |-> nm, numel |-> n]

\* The groups load_weights copies for a convolutional block, in its order;
\* <<>> stands for the AttributeError of conv.bias.numel() on a Conv2d
\* built with bias=False.
ConvGroupsWeightsFirst(b, m) ==
    LET conv_weight ==
            Group("conv.weight",
                  m.out_channels * m.in_channels * m.size * m.size)
    IN IF b.bn_key /\ b.bn_val # 0
       THEN <<conv_weight,
              Group("bn.bias", m.out_channels),
              Group("bn.weight", m.out_channels),
              Group("bn.running_mean", m.out_channels),
              Group("bn.running_var", m.out_channels)>>
       ELSE IF ~m.has_bias THEN <<>>
       ELSE <<conv_weight, Group("conv.bias", m.out_channels)>>

ConvGroups(b, m) ==
    LET conv_weight ==
            Group("conv.weight",
                  m.out_channels * m.in_channels * m.size * m.size)
    IN IF b.bn_key /\ b.bn_val # 0
       THEN <<Group("bn.bias", m.out_channels),
              Group("bn.weight", m.out_channels),
              Group("bn.running_mean", m.out_channels),
              Group("bn.running_var", m.out_channels),
              conv_weight>>
       ELSE IF ~m.has_bias THEN <<>>
       ELSE <<Group("conv.bias", m.out_channels), conv_weight>>

\* The copies of one block, from position pos of a blob of n floats: each
\* group takes weights[pos:pos + numel]; a slice that comes out short makes
\* view_as raise, before the copy and before pos advances.
RECURSIVE CopyGroupsNoAdvance(_, _, _, _, _)
CopyGroupsNoAdvance(groups, k, pos, n, done) ==
    IF groups = <<>> THEN [reads |-> done, p |-> pos, err |-> ""]
    ELSE IF pos + Head(groups).numel > n
         THEN [reads |-> done, p |-> pos, err |-> "RuntimeError"]
         ELSE CopyGroupsNoAdvance(Tail(groups), k, pos, n,
                  Append(done, [layer |-> k, param |-> Head(groups).param,
                                lo |-> pos,
                                hi |-> pos + Head(groups).numel]))

RECURSIVE CopyGroups(_, _, _, _, _)
CopyGroups(groups, k, pos, n, done) ==
    IF groups = <<>> THEN [reads |-> done, p |-> pos, err |-> ""]
    ELSE IF pos + Head(groups).numel > n
         THEN [reads |-> done, p |-> pos, err |-> "RuntimeError"]
         ELSE CopyGroups(Tail(groups), k, pos + Head(groups).numel, n,
                  Append(done, [layer |-> k, param |-> Head(groups).param,
                                lo |-> pos,
                                hi |-> pos + Head(groups).numel]))

\* open(weights_path), the header, the floats, and p = 0.
LoadStart ==
    /\ UNCHANGED <<yoloVars, nmsVars, parseVars, camVars,
                 first_graph>>
    /\ pc = "built"
    /\ pc' = "load"
    /\ i' = 0
    /\ p' = 0
    /\ reads' = <<>>
    /\ UNCHANGED <<cfg, net_channels, blocks, err, curr_out_channels,
                   prev_layer_out_channels, out_channels, out_channels_list,
                   modules_, blocks_to_cache, cached_outputs, x, bbox_list,
                   hist, weights_len>>

LoadStep ==
    /\ UNCHANGED <<yoloVars, nmsVars, parseVars, camVars,
                 first_graph>>
    /\ pc = "load"
    /\ i < Len(blocks)
    /\ LET b == blocks[i + 1]
           m == modules_[i + 1]
       IN IF b.type # "convolutional"
          THEN /\ i' = i + 1
               /\ UNCHANGED <<pc, err, p, reads>>
          ELSE IF ConvGroups(b, m) = <<>>
          THEN /\ pc' = "load_raised"
               /\ err' = "AttributeError"
               /\ UNCHANGED <<i, p, reads>>
          ELSE LET r == CopyGroups(ConvGroups(b, m), i, p, weights_len,
                                   reads)
               IN /\ reads' = r.reads
                  /\ p' = r.p
                  /\ IF r.err # ""
                     THEN /\ pc' = "load_raised"
                          /\ err' = r.err
                          /\ UNCHANGED i
                     ELSE /\ i' = i + 1
                          /\ UNCHANGED <<pc, err>>
    /\ UNCHANGED <<cfg, net_channels, blocks, curr_out_channels,
                   prev_layer_out_channels, out_channels, out_channels_list,
                   modules_, blocks_to_cache, cached_outputs, x, bbox_list,
                   hist, weights_len>>

\* return self: whatever the blob holds beyond p is never looked at.
LoadReturn ==
    /\ UNCHANGED <<yoloVars, nmsVars, parseVars, camVars,
                 first_graph>>
    /\ pc = "load"
    /\ i = Len(blocks)
    /\ pc' = "loaded"
    /\ UNCHANGED <<cfg, net_channels, blocks, err, i, curr_out_channels,
                   prev_layer_out_channels, out_channels, out_channels_list,
                   modules_, blocks_to_cache, cached_outputs, x, bbox_list,
                   hist, weights_len, p, reads>>

InitLoad ==
    /\ GraphStart(LoadConfigs, LoadNetChannels)
    /\ weights_len \in 0..MaxFloats
    /\ p = 0
    /\ reads = <<>>
    /\ YoloIdle
    /\ NmsIdle
    /\ ParseIdle
    /\ CamIdle

NextLoad ==
    \/ B2MStep
    \/ B2MReturn
    \/ InitStep
    \/ InitReturn
    \/ LoadStart
    \/ LoadStep
    \/ LoadReturn

SpecLoad == InitLoad /\ [][NextLoad]_vars

-----------------------------------------------------------------------------
(* YOLOLayer.forward: the shapes it goes through *)

MaxBatch == 2

\* num_anchors, and x.shape = (num_samples, num_predictions, h, w).
YoloInputs ==
    [num_anchors : 1..3, num_samples : 1..MaxBatch,
     num_predictions : {6, 7, 12, 14, 16, 18, 21},
     h : {1, 2, 4}, w : {1, 2, 4}]

Dim(nm, n) == [axis |-> nm, size |-> n]

\* Tensor.squeeze(): every dimension of size 1 is dropped.
Squeeze(dims) ==
    LET keep == {k \in 1..Len(dims) : dims[k].size # 1}
        RECURSIVE Pick(_)
        Pick(k) == IF k > Len(dims) THEN <<>>
                   ELSE IF k \in keep THEN <<dims[k]>> \o Pick(k + 1)
                   ELSE Pick(k + 1)
    IN Pick(1)

RECURSIVE Numel(_)
Numel(dims) == IF dims = <<>> THEN 1 ELSE Head(dims).size * Numel(Tail(dims))

YoloResult(e, shape, idx_shape, coords_first) ==
    [err |-> e, bbox_xywhs |-> shape, max_class_idx |-> idx_shape,
     rows_are_boxes |-> coords_first]

\* The shapes of YOLOLayer.forward; err names the operation that raises.
YoloForward(in) ==
    LET num_anchors == in.num_anchors
        num_classes == (in.num_predictions \div num_anchors) - 5
        per_anchor == num_classes + 5
        bbox_xywh == <<Dim("samples", in.num_samples),
                       Dim("anchors", num_anchors), Dim("xywh", 4),
                       Dim("h", in.h), Dim("w", in.w)>>
        squeezed == Squeeze(bbox_xywh)
        permuted == <<squeezed[2], squeezed[1], squeezed[3], squeezed[4]>>
        cells == in.num_samples * num_anchors * in.h * in.w
    IN IF num_anchors * per_anchor # in.num_predictions
       THEN YoloResult("reshape", <<>>, <<>>, FALSE)
       ELSE IF per_anchor < 4
       THEN YoloResult("index", <<>>, <<>>, FALSE)
       ELSE IF num_classes < 1
       THEN YoloResult("max", <<>>, <<>>, FALSE)
       ELSE IF Len(squeezed) # 4
       THEN YoloResult("permute", <<>>, <<>>, FALSE)
       ELSE YoloResult("", <<Numel(permuted) \div 4, 5>>, <<cells>>,
                       permuted[1].axis = "xywh")

YoloCall ==
    /\ UNCHANGED <<graphVars, loadVars, nmsVars, parseVars, camVars>>
    /\ yolo_out = <<>>
    /\ yolo_out' = <<YoloForward(yolo_in)>>
    /\ UNCHANGED yolo_in

InitYolo ==
    /\ GraphIdle
    /\ LoadIdle
    /\ NmsIdle
    /\ yolo_in \in YoloInputs
    /\ yolo_out = <<>>
    /\ ParseIdle
    /\ CamIdle

NextYolo ==
    \/ YoloCall

SpecYolo == InitYolo /\ [][NextYolo]_vars


-----------------------------------------------------------------------------
(* Non-maximum suppression (main.py) *)

MaxBoxes == 3

\* Boxes are <<tl_x, tl_y, br_x, br_y>> in integer pixels, as cxywh_to_tlbr
\* makes them from integer centre and size (so br >= tl). Of these three the
\* first two have an IoU of 1/3, and each has 2/3 with the third.
NmsBoxes == {<<0, 0, 1, 1>>, <<1, 0, 2, 1>>, <<0, 0, 2, 1>>}
NmsProbs == {1, 2}
NmsClasses == {0, 1}
\* iou_thresh as <<numerator, denominator>>: the default 0.3, 0.5 and 2/3.
IouThreshs == {<<3, 10>>, <<1, 2>>, <<2, 3>>}

Max2(a, b) == IF a >= b THEN a ELSE b
Min2(a, b) == IF a <= b THEN a ELSE b

\* area, with the +1 of inclusive pixel coordinates.
Area(b) == ((b[3] - b[1]) + 1) * ((b[4] - b[2]) + 1)

Inter(a, b) ==
    LET overlap_w == Max2(0, (Min2(a[3], b[3]) - Max2(a[1], b[1])) + 1)
        overlap_h == Max2(0, (Min2(a[4], b[4]) - Max2(a[2], b[2])) + 1)
    IN overlap_w * overlap_h

Union(a, b) == Area(a) + Area(b) - Inter(a, b)

\* iou > iou_thresh, for iou = inter / union and iou_thresh = t[1] / t[2].
IouAboveOrEqual(a, b, t) == Inter(a, b) * t[2] >= t[1] * Union(a, b)

IouAbove(a, b, t) == Inter(a, b) * t[2] > t[1] * Union(a, b)

\* The subsequence of s whose elements satisfy Keep.
RECURSIVE SelectSeqBy(_, _)
SelectSeqBy(s, keepSet) ==
    IF s = <<>> THEN <<>>
    ELSE IF Head(s) \in keepSet
         THEN <<Head(s)>> \o SelectSeqBy(Tail(s), keepSet)
         ELSE SelectSeqBy(Tail(s), keepSet)

\* The while loop of _non_max_suppression: idxs is the deque (0-based
\* indices, greatest probability first), keep is idxs_to_keep.
RECURSIVE GreedyFirstOnly(_, _, _, _)
GreedyFirstOnly(bbox, idxs, keep, t) ==
    IF idxs = <<>> THEN keep
    ELSE LET curr_idx == Head(idxs)
             rest == Tail(idxs)
             over == {k \in 1..Len(rest) :
                         IouAbove(bbox[curr_idx + 1], bbox[rest[k] + 1], t)}
             first == IF over = {} THEN {}
                      ELSE {rest[CHOOSE k \in over : \A m \in over : k <= m]}
             left == SelectSeqBy(rest,
                         {rest[k] : k \in 1..Len(rest)} \ first)
         IN GreedyFirstOnly(bbox, left, Append(keep, curr_idx), t)

\* The loop taking the head of the deque without the test "while idxs".
RECURSIVE GreedyNoEmptyTest(_, _, _, _)
GreedyNoEmptyTest(bbox, idxs, keep, t) ==
    IF idxs = <<>> THEN Append(keep, 0)
    ELSE LET curr_idx == Head(idxs)
             rest == Tail(idxs)
             idxs_to_remove ==
                 {rest[k] : k \in {m \in 1..Len(rest) :
                     IouAbove(bbox[curr_idx + 1], bbox[rest[m] + 1], t)}}
             left == SelectSeqBy(rest,
                         {rest[k] : k \in 1..Len(rest)} \ idxs_to_remove)
         IN IF left = <<>> THEN Append(keep, curr_idx)
            ELSE GreedyNoEmptyTest(bbox, left, Append(keep, curr_idx), t)

RECURSIVE Greedy(_, _, _, _)
Greedy(bbox, idxs, keep, t) ==
    IF idxs = <<>> THEN keep
    ELSE LET curr_idx == Head(idxs)
             rest == Tail(idxs)
             idxs_to_remove ==
                 {rest[k] : k \in {m \in 1..Len(rest) :
                     IouAbove(bbox[curr_idx + 1], bbox[rest[m] + 1], t)}}
             left == SelectSeqBy(rest,
                         {rest[k] : k \in 1..Len(rest)} \ idxs_to_remove)
         IN Greedy(bbox, left, Append(keep, curr_idx), t)

\* The results np.argsort(prob)[::-1] can have: the indices 0..n-1 by
\* probability, greatest first; the order among equal probabilities is the
\* sort's own.
DescOrders(prob) ==
    LET n == Len(prob) IN
    {o \in [1..n -> 0..(n - 1)] :
        /\ \A j, k \in 1..n : j # k => o[j] # o[k]
        /\ \A j, k \in 1..n : j < k => prob[o[j] + 1] >= prob[o[k] + 1]}

\* _non_max_suppression(bbox_tlbr, prob, iou_thresh), order being the
\* result of its argsort.
NonMaxSuppression1(bbox, order, t) == Greedy(bbox, order, <<>>, t)

\* np.where(class_idx == class_)[0]: the indices of the class, ascending.
ClassMask(class_idx, c) ==
    SelectSeqBy([k \in 1..Len(class_idx) |-> k - 1],
                {k \in 0..(Len(class_idx) - 1) : class_idx[k + 1] = c})

\* The position (0-based) of v in the sequence s.
PosIn(s, v) == (CHOOSE k \in 1..Len(s) : s[k] = v) - 1

\* arr[mask]
Take(arr, mask) == [k \in 1..Len(mask) |-> arr[mask[k] + 1]]

\* The class's candidates by probability, smallest first.
LocalOrderAscending(order, mask) ==
    LET members == {mask[k] : k \in 1..Len(mask)}
        sub == SelectSeqBy(order, members)
    IN [k \in 1..Len(sub) |-> PosIn(mask, sub[Len(sub) + 1 - k])]

\* The argsort of the class's own probabilities that agrees with order, an
\* argsort of all of them: local indices into the mask.
LocalOrder(order, mask) ==
    LET members == {mask[k] : k \in 1..Len(mask)}
        sub == SelectSeqBy(order, members)
    IN [k \in 1..Len(sub) |-> PosIn(mask, sub[k])]

\* The classes of set(class_idx), in the order the loop takes them.
RECURSIVE ClassesAscending(_)
ClassesAscending(cs) ==
    IF cs = {} THEN <<>>
    ELSE LET c == CHOOSE m \in cs : \A q \in cs : m <= q
         IN <<c>> \o ClassesAscending(cs \ {c})

RECURSIVE PerClass(_, _, _, _, _)
PerClass(bbox, class_idx, order, t, classes) ==
    IF classes = <<>> THEN <<>>
    ELSE LET curr_class_mask == ClassMask(class_idx, Head(classes))
             curr_class_bbox == Take(bbox, curr_class_mask)
             curr_class_idxs_to_keep ==
                 NonMaxSuppression1(curr_class_bbox,
                                    LocalOrder(order, curr_class_mask), t)
         IN Take(curr_class_mask, curr_class_idxs_to_keep)
            \o PerClass(bbox, class_idx, order, t, Tail(classes))

\* non_max_suppression(bbox_tlbr, class_prob, class_idx, iou_thresh);
\* use_class = FALSE is class_idx=None.
NonMaxSuppression(bbox, class_idx, use_class, order, t) ==
    IF use_class
    THEN PerClass(bbox, class_idx, order, t,
                  ClassesAscending({class_idx[k] : k \in 1..Len(class_idx)}))
    ELSE NonMaxSuppression1(bbox, order, t)

\* The calls: with class_idx (per-class), or with class_idx=None, where
\* the model carries an all-zero class_idx that nothing reads.
NmsInputs ==
    UNION {[bbox : [1..n -> NmsBoxes], prob : [1..n -> NmsProbs],
            class_idx : [1..n -> NmsClasses], use_class : {TRUE},
            iou_thresh : IouThreshs]
           \cup
           [bbox : [1..n -> NmsBoxes], prob : [1..n -> NmsProbs],
            class_idx : {[k \in 1..n |-> 0]}, use_class : {FALSE},
            iou_thresh : IouThreshs] : n \in 0..MaxBoxes}

\* The candidates non_max_suppression kept, as arrays: arr[idxs_to_keep].
KeptInput(in, keep) ==
    [bbox |-> Take(in.bbox, keep), prob |-> Take(in.prob, keep),
     class_idx |-> Take(in.class_idx, keep), use_class |-> in.use_class,
     iou_thresh |-> in.iou_thresh]

\* idxs_to_keep = non_max_suppression(...)
NmsApply ==
    /\ UNCHANGED <<graphVars, loadVars, yoloVars, parseVars, camVars>>
    /\ nms_pc = "start"
    /\ \E order \in DescOrders(nms_in.prob) :
           nms_keep' = NonMaxSuppression(nms_in.bbox, nms_in.class_idx,
                                         nms_in.use_class, order,
                                         nms_in.iou_thresh)
    /\ nms_pc' = "applied"
    /\ UNCHANGED <<nms_in, nms_keep2>>

\* non_max_suppression again, on the candidates it kept.
NmsReapply ==
    /\ UNCHANGED <<graphVars, loadVars, yoloVars, parseVars, camVars>>
    /\ nms_pc = "applied"
    /\ LET in2 == KeptInput(nms_in, nms_keep) IN
       \E order \in DescOrders(in2.prob) :
           nms_keep2' = NonMaxSuppression(in2.bbox, in2.class_idx,
                                          in2.use_class, order,
                                          in2.iou_thresh)
    /\ nms_pc' = "reapplied"
    /\ UNCHANGED <<nms_in, nms_keep>>

InitNms ==
    /\ GraphIdle
    /\ LoadIdle
    /\ YoloIdle
    /\ nms_in \in NmsInputs
    /\ nms_pc = "start"
    /\ nms_keep = <<>>
    /\ nms_keep2 = <<>>
    /\ ParseIdle
    /\ CamIdle

NextNms ==
    \/ NmsApply
    \/ NmsReapply

SpecNms == InitNms /\ [][NextNms]_vars

-----------------------------------------------------------------------------
(* parse_config (darknet.py): strings are sequences of characters *)

MaxLines == 4

NetHeader == <<"[", "n", "e", "t", "]", "\n">>
YoloHeader == <<"[", "y", "o", "l", "o", "]", "\n">>
RouteHeader == <<"[", "r", "o", "u", "t", "e", "]", "\n">>
\* A header without its closing bracket.
OpenHeader == <<"[", "n", "e", "t", "\n">>
Channels3 == <<"c", "h", "a", "n", "n", "e", "l", "s", "=", "3", "\n">>
Channels1 == <<"c", "h", "a", "n", "n", "e", "l", "s", " ", "=", " ", "1", "\n">>
LayersLine == <<"l", "a", "y", "e", "r", "s", "=", "-", "1", ",", "-", "4", "\n">>
LayerLine == <<"l", "a", "y", "e", "r", "s", "=", "-", "1", "\n">>
\* A line that is neither a header nor key=value.
BareWord == <<"s", "i", "z", "e", "\n">>
CommentLine == <<"#", " ", "c", "\n">>
BlankLine == <<"\n">>

FileLines == {NetHeader, YoloHeader, RouteHeader, OpenHeader, Channels3,
              Channels1, LayersLine, LayerLine, BareWord, CommentLine,
              BlankLine}

\* Two net blocks, the first with channels=3, the second with channels=1,
\* and layers between and after them.
TwoNetFile == <<NetHeader, Channels3, YoloHeader, NetHeader, Channels1,
                RouteHeader, LayersLine>>

ConfigFiles ==
    UNION {[1..n -> FileLines] : n \in 0..MaxLines} \cup {TwoNetFile}

Whitespace == {" ", "\n"}
Digits == {"0", "1", "2", "3", "4", "5", "6", "7", "8", "9"}

\* str.isspace(): at least one character, all of them whitespace.
IsSpace(s) == s # <<>> /\ \A k \in 1..Len(s) : s[k] \in Whitespace

\* str.startswith(ch)
StartsWith(s, ch) == s # <<>> /\ s[1] = ch

\* str.strip()
RECURSIVE LStrip(_)
LStrip(s) == IF s # <<>> /\ Head(s) \in Whitespace THEN LStrip(Tail(s)) ELSE s

RECURSIVE RStrip(_)
RStrip(s) ==
    IF s # <<>> /\ s[Len(s)] \in Whitespace
    THEN RStrip(SubSeq(s, 1, Len(s) - 1))
    ELSE s

Strip(s) == LStrip(RStrip(s))

\* s[1:-1]
InnerSlice(s) == IF Len(s) <= 2 THEN <<>> ELSE SubSeq(s, 2, Len(s) - 1)

\* ch in s
Contains(s, ch) == \E k \in 1..Len(s) : s[k] = ch

\* s.split(ch)
RECURSIVE Split(_, _)
Split(s, ch) ==
    IF ~Contains(s, ch) THEN <<s>>
    ELSE LET k == CHOOSE m \in 1..Len(s) :
                     s[m] = ch /\ \A q \in 1..(m - 1) : s[q] # ch
         IN <<SubSeq(s, 1, k - 1)>> \o Split(SubSeq(s, k + 1, Len(s)), ch)

\* Values of a block's fields: int, str, or a list of them.
IntVal(n) == [kind |-> "int", int |-> n, str |-> <<>>, items |-> <<>>]
StrVal(s) == [kind |-> "str", int |-> 0, str |-> s, items |-> <<>>]
ListVal(vs) == [kind |-> "list", int |-> 0, str |-> <<>>, items |-> vs]

DigitValue(d) ==
    CASE d = "0" -> 0 [] d = "1" -> 1 [] d = "2" -> 2 [] d = "3" -> 3
      [] d = "4" -> 4 [] d = "5" -> 5 [] d = "6" -> 6 [] d = "7" -> 7
      [] d = "8" -> 8 [] d = "9" -> 9

RECURSIVE Decimal(_, _)
Decimal(s, acc) ==
    IF s = <<>> THEN acc ELSE Decimal(Tail(s), 10 * acc + DigitValue(Head(s)))

\* int(raw_val) succeeds: an optional sign and digits.
IsIntLiteral(s) ==
    LET body == IF s # <<>> /\ Head(s) \in {"-", "+"} THEN Tail(s) ELSE s
    IN body # <<>> /\ \A k \in 1..Len(body) : body[k] \in Digits

\* str2type: an int where int() takes the string, else the string itself
\* (none of the values of these files is a float literal).
Str2Type(raw_val) ==
    LET s == Strip(raw_val) IN
    IF IsIntLiteral(s)
    THEN IF Head(s) = "-" THEN IntVal(0 - Decimal(Tail(s), 0))
         ELSE IF Head(s) = "+" THEN IntVal(Decimal(Tail(s), 0))
         ELSE IntVal(Decimal(s, 0))
    ELSE StrVal(raw_val)

TypeKey == <<"t", "y", "p", "e">>
LayersKey == <<"l", "a", "y", "e", "r", "s">>
AnchorsKey == <<"a", "n", "c", "h", "o", "r", "s">>
NetType == <<"n", "e", "t">>
RouteType == <<"r", "o", "u", "t", "e">>

\* block[key] = val
DictSet(block, key, val) ==
    [k \in DOMAIN block \cup {key} |-> IF k = key THEN val ELSE block[k]]

\* [val[i:i+2] for i in range(0, len(val), 2)] of a list.
RECURSIVE Pairs(_)
Pairs(vs) ==
    IF vs = <<>> THEN <<>>
    ELSE IF Len(vs) = 1 THEN <<ListVal(vs)>>
    ELSE <<ListVal(SubSeq(vs, 1, 2))>> \o Pairs(SubSeq(vs, 3, Len(vs)))

\* The same of a str: its pieces of two characters.
RECURSIVE StrPairs(_)
StrPairs(s) ==
    IF s = <<>> THEN <<>>
    ELSE IF Len(s) = 1 THEN <<StrVal(s)>>
    ELSE <<StrVal(SubSeq(s, 1, 2))>> \o StrPairs(SubSeq(s, 3, Len(s)))

\* The value parse_config stores for one "key=value" line of a block.
FieldValue(block, key, raw_val) ==
    LET val == IF Contains(raw_val, ",")
               THEN LET parts == Split(raw_val, ",") IN
                    ListVal([k \in 1..Len(parts) |->
                                Str2Type(Strip(parts[k]))])
               ELSE Str2Type(Strip(raw_val))
        val2 == IF block[TypeKey] = StrVal(RouteType) /\ key = LayersKey
                   /\ val.kind = "int"
                THEN ListVal(<<val>>)
                ELSE val
    IN IF key = AnchorsKey /\ val2.kind = "list"
       THEN ListVal(Pairs(val2.items))
       ELSE IF key = AnchorsKey /\ val2.kind = "str"
       THEN ListVal(StrPairs(val2.str))
       ELSE val2

\* The loop over the lines of one text block, from line j on; err is the
\* exception of the first line that does not unpack into key, raw_val, or
\* of len() of an int anchors value.
RECURSIVE ParseFields(_, _, _)
ParseFields(text_block, j, block) ==
    IF j > Len(text_block) THEN [err |-> "", block |-> block]
    ELSE LET parts == Split(text_block[j], "=") IN
         IF Len(parts) # 2 THEN [err |-> "ValueError", block |-> block]
         ELSE LET key == Strip(parts[1])
                  val == FieldValue(block, key, parts[2])
              IN IF key = AnchorsKey /\ val.kind = "int"
                 THEN [err |-> "TypeError", block |-> block]
                 ELSE ParseFields(text_block, j + 1,
                                  DictSet(block, key, val))

\* block = {"type": text_block[0][1:-1]} and the loop over its lines.
ParseTextBlock(text_block) ==
    ParseFields(text_block, 2,
                [k \in {TypeKey} |-> StrVal(InnerSlice(text_block[1]))])

\* The lines kept of f.readlines(), stripped.
ReadLines(raw) ==
    LET Kept(line) == ~(IsSpace(line) \/ StartsWith(line, "#"))
        kept == SelectSeq(raw, Kept)
    IN [k \in 1..Len(kept) |-> Strip(kept[k])]

\* block_start_lines (0-based line numbers), with len(lines) appended.
RECURSIVE BlockStartLines(_, _)
BlockStartLines(ls, line_num) ==
    IF line_num >= Len(ls) THEN <<Len(ls)>>
    ELSE IF StartsWith(ls[line_num + 1], "[")
         THEN <<line_num>> \o BlockStartLines(ls, line_num + 1)
         ELSE BlockStartLines(ls, line_num + 1)

\* text_blocks: lines[block_start:block_end] for consecutive starts.
TextBlocks(ls) ==
    LET starts == BlockStartLines(ls, 0) IN
    [k \in 1..(Len(starts) - 1) |->
        SubSeq(ls, starts[k] + 1, starts[k + 1])]

\* with open(fpath) ...: the lines are read, filtered and stripped.
ParseRead ==
    /\ UNCHANGED <<graphVars, loadVars, yoloVars, nmsVars, camVars>>
    /\ parse_pc = "start"
    /\ lines' = ReadLines(cfg_file)
    /\ parse_pc' = "chunk"
    /\ UNCHANGED <<cfg_file, parse_err, text_blocks, tb, parsed_blocks,
                   net_info>>

\* The chunking into text blocks; blocks = [], net_info = None.
ParseChunk ==
    /\ UNCHANGED <<graphVars, loadVars, yoloVars, nmsVars, camVars>>
    /\ parse_pc = "chunk"
    /\ text_blocks' = TextBlocks(lines)
    /\ tb' = 0
    /\ parsed_blocks' = <<>>
    /\ net_info' = <<>>
    /\ parse_pc' = "blocks"
    /\ UNCHANGED <<cfg_file, parse_err, lines>>

\* One iteration of "for text_block in text_blocks".
ParseBlock ==
    /\ UNCHANGED <<graphVars, loadVars, yoloVars, nmsVars, camVars>>
    /\ parse_pc = "blocks"
    /\ tb < Len(text_blocks)
    /\ LET r == ParseTextBlock(text_blocks[tb + 1]) IN
       IF r.err # ""
       THEN /\ parse_pc' = "raised"
            /\ parse_err' = r.err
            /\ UNCHANGED <<tb, parsed_blocks, net_info>>
       ELSE /\ IF r.block[TypeKey] = StrVal(NetType)
               THEN /\ net_info' = <<r.block>>
                    /\ UNCHANGED parsed_blocks
               ELSE /\ parsed_blocks' = Append(parsed_blocks, r.block)
                    /\ UNCHANGED net_info
            /\ tb' = tb + 1
            /\ UNCHANGED <<parse_pc, parse_err>>
    /\ UNCHANGED <<cfg_file, lines, text_blocks>>

\* return blocks, net_info
ParseReturn ==
    /\ UNCHANGED <<graphVars, loadVars, yoloVars, nmsVars, camVars>>
    /\ parse_pc = "blocks"
    /\ tb = Len(text_blocks)
    /\ parse_pc' = "returned"
    /\ UNCHANGED <<cfg_file, parse_err, lines, text_blocks, tb,
                   parsed_blocks, net_info>>

InitParse ==
    /\ GraphIdle
    /\ LoadIdle
    /\ YoloIdle
    /\ NmsIdle
    /\ CamIdle
    /\ cfg_file \in ConfigFiles
    /\ parse_pc = "start"
    /\ parse_err = ""
    /\ lines = <<>>
    /\ text_blocks = <<>>
    /\ tb = 0
    /\ parsed_blocks = <<>>
    /\ net_info = <<>>

NextParse ==
    \/ ParseRead
    \/ ParseChunk
    \/ ParseBlock
    \/ ParseReturn

SpecParse == InitParse /\ [][NextParse]_vars

-----------------------------------------------------------------------------
(* detect_in_cam with its VideoGetter and VideoShower threads (main.py): one
   step per attribute read or write that another thread can see. Frames are
   numbered in the order the capture delivers them; None is no frame. *)

MaxFrames == 3
MaxWrites == 3

\* self.cap.read(): a new frame, or (False, None).
CapRead(n, ok) ==
    IF ok THEN [grabbed |-> TRUE, frame |-> n + 1]
    ELSE [grabbed |-> FALSE, frame |-> None]

\* ---- VideoGetter.get ----

\* while not self.stopped
GetterWhile ==
    /\ UNCHANGED <<graphVars, loadVars, yoloVars, nmsVars, parseVars>>
    /\ getter_pc = "while"
    /\ getter_pc' = IF getter.stopped THEN "exited" ELSE "if"
    /\ UNCHANGED <<cap_reads, getter, getter_ret, shower, shower_pc, main_pc,
                   main_frame, writes, slot_write, shown>>

\* if not self.grabbed
GetterIf ==
    /\ UNCHANGED <<graphVars, loadVars, yoloVars, nmsVars, parseVars>>
    /\ getter_pc = "if"
    /\ getter_pc' = IF ~getter.grabbed THEN "stop" ELSE "read"
    /\ UNCHANGED <<cap_reads, getter, getter_ret, shower, shower_pc, main_pc,
                   main_frame, writes, slot_write, shown>>

\* self.stop()
GetterStop ==
    /\ UNCHANGED <<graphVars, loadVars, yoloVars, nmsVars, parseVars>>
    /\ getter_pc = "stop"
    /\ getter' = [getter EXCEPT !.stopped = TRUE]
    /\ getter_pc' = "while"
    /\ UNCHANGED <<cap_reads, getter_ret, shower, shower_pc, main_pc,
                   main_frame, writes, slot_write, shown>>

\* self.cap.read(): succeeds or fails; after MaxFrames frames it fails.
GetterRead ==
    /\ UNCHANGED <<graphVars, loadVars, yoloVars, nmsVars, parseVars>>
    /\ getter_pc = "read"
    /\ \E ok \in {TRUE, FALSE} :
          /\ ok => cap_reads < MaxFrames
          /\ getter_ret' = CapRead(cap_reads, ok)
          /\ cap_reads' = IF ok THEN cap_reads + 1 ELSE cap_reads
    /\ getter_pc' = "store_grabbed"
    /\ UNCHANGED <<getter, shower, shower_pc, main_pc, main_frame, writes,
                   slot_write, shown>>

\* self.grabbed, self.frame = ...: the first store
GetterStoreGrabbed ==
    /\ UNCHANGED <<graphVars, loadVars, yoloVars, nmsVars, parseVars>>
    /\ getter_pc = "store_grabbed"
    /\ getter' = [getter EXCEPT !.grabbed = getter_ret.grabbed]
    /\ getter_pc' = "store_frame"
    /\ UNCHANGED <<cap_reads, getter_ret, shower, shower_pc, main_pc,
                   main_frame, writes, slot_write, shown>>

\* ... and the second store
GetterStoreFrame ==
    /\ UNCHANGED <<graphVars, loadVars, yoloVars, nmsVars, parseVars>>
    /\ getter_pc = "store_frame"
    /\ getter' = [getter EXCEPT !.frame = getter_ret.frame]
    /\ getter_pc' = "while"
    /\ UNCHANGED <<cap_reads, getter_ret, shower, shower_pc, main_pc,
                   main_frame, writes, slot_write, shown>>

\* ---- VideoShower.show ----

\* while not self.stopped
ShowerWhile ==
    /\ UNCHANGED <<graphVars, loadVars, yoloVars, nmsVars, parseVars>>
    /\ shower_pc = "while"
    /\ shower_pc' = IF shower.stopped THEN "exited" ELSE "if"
    /\ UNCHANGED <<cap_reads, getter, getter_pc, getter_ret, shower, main_pc,
                   main_frame, writes, slot_write, shown>>

\* if self.frame is not None
ShowerIf ==
    /\ UNCHANGED <<graphVars, loadVars, yoloVars, nmsVars, parseVars>>
    /\ shower_pc = "if"
    /\ shower_pc' = IF shower.frame # None THEN "imshow" ELSE "waitKey"
    /\ UNCHANGED <<cap_reads, getter, getter_pc, getter_ret, shower, main_pc,
                   main_frame, writes, slot_write, shown>>

\* cv2.imshow(self.win_name, self.frame): self.frame is read again
ShowerImshow ==
    /\ UNCHANGED <<graphVars, loadVars, yoloVars, nmsVars, parseVars>>
    /\ shower_pc = "imshow"
    /\ shown' = Append(shown, slot_write)
    /\ shower_pc' = "clear"
    /\ UNCHANGED <<cap_reads, getter, getter_pc, getter_ret, shower, main_pc,
                   main_frame, writes, slot_write>>

\* self.frame = None
ShowerClear ==
    /\ UNCHANGED <<graphVars, loadVars, yoloVars, nmsVars, parseVars>>
    /\ shower_pc = "clear"
    /\ shower' = [shower EXCEPT !.frame = None]
    /\ slot_write' = None
    /\ shower_pc' = "waitKey"
    /\ UNCHANGED <<cap_reads, getter, getter_pc, getter_ret, main_pc,
                   main_frame, writes, shown>>

\* if cv2.waitKey(1) == ord("q"): self.stopped = True
ShowerWaitKey ==
    /\ UNCHANGED <<graphVars, loadVars, yoloVars, nmsVars, parseVars>>
    /\ shower_pc = "waitKey"
    /\ \E q \in {TRUE, FALSE} :
          shower' = IF q THEN [shower EXCEPT !.stopped = TRUE] ELSE shower
    /\ shower_pc' = "while"
    /\ UNCHANGED <<cap_reads, getter, getter_pc, getter_ret, main_pc,
                   main_frame, writes, slot_write, shown>>

\* ---- detect_in_cam ----

\* video_shower = VideoShower(video_getter.frame, "YOLOv3").start()
MainMakeShower ==
    /\ UNCHANGED <<graphVars, loadVars, yoloVars, nmsVars, parseVars>>
    /\ main_pc = "make_shower"
    /\ shower' = [frame |-> getter.frame, stopped |-> FALSE]
    /\ slot_write' = 0
    /\ shower_pc' = "while"
    /\ main_pc' = "check_getter"
    /\ UNCHANGED <<cap_reads, getter, getter_pc, getter_ret, main_frame,
                   writes, shown>>

\* if video_getter.stopped or ...
MainCheckGetter ==
    /\ UNCHANGED <<graphVars, loadVars, yoloVars, nmsVars, parseVars>>
    /\ main_pc = "check_getter"
    /\ main_pc' = IF getter.stopped THEN "stop_getter" ELSE "check_shower"
    /\ UNCHANGED <<cap_reads, getter, getter_pc, getter_ret, shower,
                   shower_pc, main_frame, writes, slot_write, shown>>

\* ... or video_shower.stopped
MainCheckShower ==
    /\ UNCHANGED <<graphVars, loadVars, yoloVars, nmsVars, parseVars>>
    /\ main_pc = "check_shower"
    /\ main_pc' = IF shower.stopped THEN "stop_getter" ELSE "read_frame"
    /\ UNCHANGED <<cap_reads, getter, getter_pc, getter_ret, shower,
                   shower_pc, main_frame, writes, slot_write, shown>>

\* video_getter.stop()
MainStopGetter ==
    /\ UNCHANGED <<graphVars, loadVars, yoloVars, nmsVars, parseVars>>
    /\ main_pc = "stop_getter"
    /\ getter' = [getter EXCEPT !.stopped = TRUE]
    /\ main_pc' = "stop_shower"
    /\ UNCHANGED <<cap_reads, getter_pc, getter_ret, shower, shower_pc,
                   main_frame, writes, slot_write, shown>>

\* video_shower.stop(); break
MainStopShower ==
    /\ UNCHANGED <<graphVars, loadVars, yoloVars, nmsVars, parseVars>>
    /\ main_pc = "stop_shower"
    /\ shower' = [shower EXCEPT !.stopped = TRUE]
    /\ main_pc' = "done"
    /\ UNCHANGED <<cap_reads, getter, getter_pc, getter_ret, shower_pc,
                   main_frame, writes, slot_write, shown>>

\* frame = video_getter.frame
MainReadFrame ==
    /\ UNCHANGED <<graphVars, loadVars, yoloVars, nmsVars, parseVars>>
    /\ main_pc = "read_frame"
    /\ main_frame' = getter.frame
    /\ main_pc' = "infer"
    /\ UNCHANGED <<cap_reads, getter, getter_pc, getter_ret, shower,
                   shower_pc, writes, slot_write, shown>>

\* do_inference(net, frame, ...) and draw_boxes(frame, ...), which draws
\* into the frame itself; image.shape of None raises.
MainInfer ==
    /\ UNCHANGED <<graphVars, loadVars, yoloVars, nmsVars, parseVars>>
    /\ main_pc = "infer"
    /\ main_pc' = IF main_frame = None THEN "raised" ELSE "write"
    /\ UNCHANGED <<cap_reads, getter, getter_pc, getter_ret, shower,
                   shower_pc, main_frame, writes, slot_write, shown>>

\* video_shower.frame = frame, and back to the head of the loop
MainWrite ==
    /\ UNCHANGED <<graphVars, loadVars, yoloVars, nmsVars, parseVars>>
    /\ main_pc = "write"
    /\ writes < MaxWrites
    /\ shower' = [shower EXCEPT !.frame = main_frame]
    /\ writes' = writes + 1
    /\ slot_write' = writes + 1
    /\ main_pc' = "check_getter"
    /\ UNCHANGED <<cap_reads, getter, getter_pc, getter_ret, shower_pc,
                   main_frame, shown>>

\* VideoGetter(cam_id).start(): the first read is done in the constructor,
\* the get thread is running.
InitCam ==
    /\ GraphIdle
    /\ LoadIdle
    /\ YoloIdle
    /\ NmsIdle
    /\ ParseIdle
    /\ \E ok \in {TRUE, FALSE} :
          /\ getter = [grabbed |-> CapRead(0, ok).grabbed,
                       frame |-> CapRead(0, ok).frame, stopped |-> FALSE]
          /\ cap_reads = IF ok THEN 1 ELSE 0
    /\ getter_pc = "while"
    /\ getter_ret = [grabbed |-> FALSE, frame |-> None]
    /\ shower = [frame |-> None, stopped |-> FALSE]
    /\ shower_pc = "idle"
    /\ main_pc = "make_shower"
    /\ main_frame = None
    /\ writes = 0
    /\ slot_write = 0
    /\ shown = <<>>

NextCam ==
    \/ GetterWhile
    \/ GetterIf
    \/ GetterStop
    \/ GetterRead
    \/ GetterStoreGrabbed
    \/ GetterStoreFrame
    \/ ShowerWhile
    \/ ShowerIf
    \/ ShowerImshow
    \/ ShowerClear
    \/ ShowerWaitKey
    \/ MainMakeShower
    \/ MainCheckGetter
    \/ MainCheckShower
    \/ MainStopGetter
    \/ MainStopShower
    \/ MainReadFrame
    \/ MainInfer
    \/ MainWrite

SpecCam == InitCam /\ [][NextCam]_vars

-----------------------------------------------------------------------------
(* Properties of the graph builder and the forward executor *)

Layers == 0..(Len(cfg) - 1)

\* A reference as the configuration format means it: negative = relative
\* to the referencing layer k, otherwise absolute.
AbsoluteRef(k, r) == IF r < 0 THEN k + r ELSE r

\* Every route reference and every shortcut target of the configuration
\* names a layer before the referencing one.
ValidRefs ==
    \A k \in Layers :
        /\ cfg[k + 1].type = "route" =>
              \A j \in 1..Len(cfg[k + 1].layers) :
                  AbsoluteRef(k, cfg[k + 1].layers[j]) \in 0..(k - 1)
        /\ cfg[k + 1].type = "shortcut" =>
              (k + cfg[k + 1].from) \in 0..(k - 1)

\* C1: for a valid configuration (every reference names an earlier layer),
\* once construction has completed out_channels_list has one entry per
\* block, and every route reference of self.blocks and every shortcut
\* target i + from is an absolute index k with 0 <= k < i.
C1_GraphShape ==
    (Built /\ ValidRefs) =>
        /\ Len(out_channels_list) = Len(cfg)
        /\ Len(blocks) = Len(cfg)
        /\ \A k \in Layers :
              /\ blocks[k + 1].type = "route" =>
                    \A j \in 1..Len(blocks[k + 1].layers) :
                        /\ blocks[k + 1].layers[j] >= 0
                        /\ blocks[k + 1].layers[j] < k
              /\ blocks[k + 1].type = "shortcut" =>
                    /\ k + blocks[k + 1].from >= 0
                    /\ k + blocks[k + 1].from < k

\* A built valid configuration with a relative route reference and a
\* shortcut.
C1_Witness ==
    /\ pc = "built"
    /\ ValidRefs
    /\ \E k \in Layers :
          /\ cfg[k + 1].type = "route"
          /\ \E j \in 1..Len(cfg[k + 1].layers) : cfg[k + 1].layers[j] < 0
    /\ \E k \in Layers : cfg[k + 1].type = "shortcut"

\* C2: once construction has completed, every shortcut layer i has the
\* output channel count of layer i-1 and of the layer i+from it adds; a
\* configuration where they differ never completes construction, so no
\* forward pass runs on it.
C2_ShortcutChannels ==
    Built =>
        \A k \in Layers :
            blocks[k + 1].type = "shortcut" =>
                /\ k >= 1
                /\ out_channels_list[k + 1] = out_channels_list[k]
                /\ (k + blocks[k + 1].from >= 0 =>
                       out_channels_list[k + 1] =
                           out_channels_list[k + blocks[k + 1].from + 1])

\* A built configuration whose shortcut adds a layer other than i-1.
C2_Witness ==
    /\ pc = "built"
    /\ \E k \in Layers :
          /\ blocks[k + 1].type = "shortcut"
          /\ k + blocks[k + 1].from >= 0
          /\ k + blocks[k + 1].from < k - 1

\* Some route reference or shortcut target of the configuration resolves to
\* a negative index or to one >= the referencing layer's.
BadReference ==
    \E k \in Layers :
        \/ /\ cfg[k + 1].type = "route"
           /\ \E j \in 1..Len(cfg[k + 1].layers) :
                 \/ AbsoluteRef(k, cfg[k + 1].layers[j]) < 0
                 \/ AbsoluteRef(k, cfg[k + 1].layers[j]) >= k
        \/ /\ cfg[k + 1].type = "shortcut"
           /\ \/ k + cfg[k + 1].from < 0
              \/ k + cfg[k + 1].from >= k

\* C3: construction never completes on a configuration with a route
\* reference or shortcut target that resolves to a negative index or to
\* one >= the referencing layer's index.
C3_BadReferenceRaises == BadReference => ~Built

\* The indices below n of the detection layers, ascending.
RECURSIVE YoloLayersBelow(_)
YoloLayersBelow(n) ==
    IF n = 0 THEN <<>>
    ELSE IF blocks[n].type = "yolo"
         THEN Append(YoloLayersBelow(n - 1), n - 1)
         ELSE YoloLayersBelow(n - 1)

\* C6: forward visits the layers once each in index order; bbox_list holds
\* one decoded output per detection layer visited, in layer order, the
\* k-th being the decode by the k-th detection layer of the tensor that was
\* current when it was reached, and a detection layer leaves the current
\* tensor as it is.
C6_ForwardCollects ==
    pc \in {"forward", "done"} =>
        /\ Len(hist) = i
        /\ \A k \in 1..Len(hist) : hist[k].layer = k - 1
        /\ pc = "done" => i = Len(blocks)
        /\ LET ys == YoloLayersBelow(i) IN
           /\ Len(bbox_list) = Len(ys)
           /\ \A m \in 1..Len(ys) :
                 /\ bbox_list[m].op = "yolo"
                 /\ bbox_list[m].layer = ys[m]
                 /\ bbox_list[m].args = <<hist[ys[m] + 1].in>>
                 /\ hist[ys[m] + 1].out = hist[ys[m] + 1].in

\* A completed pass over two detection layers that decoded different
\* tensors.
C6_Witness ==
    /\ pc = "done"
    /\ Len(bbox_list) >= 2
    /\ bbox_list[1].args # bbox_list[2].args

\* The sum of the output channel counts of the layers the references
\* layers[j..] of route layer k name.
RECURSIVE RefChannelSum(_, _, _)
RefChannelSum(k, layers, j) ==
    IF j > Len(layers) THEN 0
    ELSE out_channels_list[AbsoluteRef(k, layers[j]) + 1]
         + RefChannelSum(k, layers, j + 1)

\* C7: once construction has completed, every route layer's output channel
\* count is the sum of those of the layers it references (negative r =
\* layer i + r, otherwise layer r); block["layers"] holds the resolved
\* references in the order given, each of them in blocks_to_cache; and the
\* output of the route layer in forward is the concatenation of those
\* layers' outputs in that order.
C7_RouteChannels ==
    Built =>
        \A k \in Layers :
            cfg[k + 1].type = "route" =>
                LET given == cfg[k + 1].layers
                    resolved == [j \in 1..Len(given) |->
                                    AbsoluteRef(k, given[j])]
                IN /\ out_channels_list[k + 1] = RefChannelSum(k, given, 1)
                   /\ blocks[k + 1].layers = resolved
                   /\ \A j \in 1..Len(resolved) :
                         resolved[j] \in blocks_to_cache
                   /\ (pc \in {"forward", "done"} /\ k < Len(hist)) =>
                         /\ hist[k + 1].out.op = "cat"
                         /\ hist[k + 1].out.args =
                                [j \in 1..Len(resolved) |->
                                    hist[resolved[j] + 1].out]

\* A completed pass with a route over two layers of different channel
\* counts, one named relatively and one absolutely.
C7_Witness ==
    /\ pc = "done"
    /\ \E k \in Layers :
          /\ cfg[k + 1].type = "route"
          /\ Len(cfg[k + 1].layers) = 2
          /\ cfg[k + 1].layers[1] < 0
          /\ cfg[k + 1].layers[2] >= 0
          /\ out_channels_list[AbsoluteRef(k, cfg[k + 1].layers[1]) + 1]
                # out_channels_list[AbsoluteRef(k, cfg[k + 1].layers[2]) + 1]

\* C8 as stated: in scenario B the route block gets 16+4 = 20 output
\* channels.
C8_ScenarioB20 == (cfg = ScenarioB /\ Built) => out_channels_list[5] = 20

\* C8, amended: in scenario B the route block (layer 4, layers = -1, -4)
\* gets the channels of layer 3 and of layer 0: 4+8 = 12 output channels.
C8_ScenarioB12 == (cfg = ScenarioB /\ Built) => out_channels_list[5] = 12

\* Scenario B, built.
C8_Witness ==
    /\ cfg = ScenarioB
    /\ pc = "built"
    /\ Len(out_channels_list) = 5

\* C14: once construction has completed, every maxpool, upsample and yolo
\* layer i has as its recorded output channel count the output channel
\* count of layer i-1, and the channels of the net block when i = 0.
C14_PassThrough ==
    Built =>
        \A k \in Layers :
            cfg[k + 1].type \in {"maxpool", "upsample", "yolo"} =>
                out_channels_list[k + 1] =
                    (IF k = 0 THEN net_channels ELSE out_channels_list[k])

\* C16: when the builder has run twice on the same layer list and the
\* second run has completed, it built what the first run built: the same
\* resolved references, the same channel counts, the same modules and the
\* same blocks_to_cache; and a second run never raises.
C16_BuilderRepeatable ==
    first_graph # <<>> =>
        /\ pc # "raised"
        /\ pc = "built" =>
              first_graph[1] = [blocks |-> blocks,
                                out_channels_list |-> out_channels_list,
                                blocks_to_cache |-> blocks_to_cache,
                                modules_ |-> modules_]

\* A second run completed on the list the first run rewrote: a route with a
\* relative reference, resolved by the first run.
C16_Witness ==
    /\ pc = "built"
    /\ first_graph # <<>>
    /\ \E k \in Layers :
          /\ cfg[k + 1].type = "route"
          /\ cfg[k + 1].layers # blocks[k + 1].layers
    /\ \E k \in Layers : cfg[k + 1].type = "shortcut"

\* C19: once construction has completed, blocks_to_cache holds only layer
\* indices (0 <= k < number of layers); in a forward pass the slot of layer
\* k is None until layer k has been processed and holds that layer's
\* output from then on, and no route or shortcut layer finds a slot it
\* reads still None.
C19_CacheSafe ==
    Built =>
        /\ \A k \in blocks_to_cache : k \in Layers
        /\ pc = "forward_raised" => err # "TypeError"
        /\ pc \in {"forward", "done"} =>
              /\ DOMAIN cached_outputs = blocks_to_cache
              /\ \A k \in DOMAIN cached_outputs :
                    cached_outputs[k] =
                        (IF k < i THEN hist[k + 1].out ELSE NoneTensor)
              /\ \A k \in 0..(i - 1) :
                    /\ blocks[k + 1].type = "route" =>
                          \A j \in 1..Len(blocks[k + 1].layers) :
                              /\ blocks[k + 1].layers[j] \in blocks_to_cache
                              /\ blocks[k + 1].layers[j] < k
                    /\ blocks[k + 1].type = "shortcut" =>
                          /\ {k - 1, k + blocks[k + 1].from}
                                \subseteq blocks_to_cache
                          /\ k + blocks[k + 1].from < k
                          /\ k + blocks[k + 1].from >= 0

-----------------------------------------------------------------------------
(* Properties of the detection head *)

\* The head input has the shape (B, A*(5+C), H, W) for some C >= 1.
HeadShaped(in) ==
    \E c \in 1..in.num_predictions :
        in.num_predictions = in.num_anchors * (5 + c)

\* C9: on a head input of shape (B, A*(5+C), H, W), YOLOLayer.forward
\* returns B*A*H*W candidates (A*H*W for each of the B images), each a row of
\* cx, cy, w, h, confidence, with as many class indices.
C9_DecodeCount ==
    (yolo_out # <<>> /\ HeadShaped(yolo_in)) =>
        LET n == yolo_in.num_samples * yolo_in.num_anchors
                 * yolo_in.h * yolo_in.w
        IN /\ yolo_out[1].err = ""
           /\ yolo_out[1].bbox_xywhs = <<n, 5>>
           /\ yolo_out[1].max_class_idx = <<n>>
           /\ yolo_out[1].rows_are_boxes

-----------------------------------------------------------------------------
(* Properties of the weight loader *)

\* The parameter groups a convolutional layer k reads, as the weight format
\* orders them: with batch normalization bias, scale, running mean, running
\* variance (N = filters each), then the conv weights (out x in x k x k);
\* without it the conv bias (N), then the conv weights.
FormatGroups(k) ==
    LET n == cfg[k + 1].filters
        in_ch == IF k = 0 THEN net_channels ELSE out_channels_list[k]
        w == n * in_ch * cfg[k + 1].size * cfg[k + 1].size
    IN IF modules_[k + 1].has_bn
       THEN <<Group("bn.bias", n), Group("bn.weight", n),
              Group("bn.running_mean", n), Group("bn.running_var", n),
              Group("conv.weight", w)>>
       ELSE <<Group("conv.bias", n), Group("conv.weight", w)>>

\* The groups read for layer k, in the order they were read.
RECURSIVE ReadsOf(_, _)
ReadsOf(k, rs) ==
    IF rs = <<>> THEN <<>>
    ELSE IF Head(rs).layer = k
         THEN <<Group(Head(rs).param, Head(rs).hi - Head(rs).lo)>>
              \o ReadsOf(k, Tail(rs))
         ELSE ReadsOf(k, Tail(rs))

IsPrefix(s, t) ==
    /\ Len(s) <= Len(t)
    /\ \A k \in 1..Len(s) : s[k] = t[k]

\* C10: load_weights reads the floats positionally, once, in layer order:
\* the ranges read are contiguous from 0 and end at p, which never passes
\* the end of the blob; the layers read come in layer order; a
\* convolutional layer that was loaded read exactly its groups in the
\* format's order, the layer being loaded a prefix of them, any other layer
\* nothing; and a load that ran through all layers ends without error
\* whatever is left in the blob.
C10_LoadOrder ==
    pc \in {"load", "loaded", "load_raised"} =>
        /\ \A k \in 1..Len(reads) :
              /\ reads[k].lo = (IF k = 1 THEN 0 ELSE reads[k - 1].hi)
              /\ reads[k].hi > reads[k].lo
              /\ k > 1 => reads[k - 1].layer <= reads[k].layer
        /\ p = (IF reads = <<>> THEN 0 ELSE reads[Len(reads)].hi)
        /\ p <= weights_len
        /\ \A k \in Layers :
              IF cfg[k + 1].type # "convolutional" \/ k > i
              THEN ReadsOf(k, reads) = <<>>
              ELSE IF k < i
              THEN ReadsOf(k, reads) = FormatGroups(k)
              ELSE IsPrefix(ReadsOf(k, reads), FormatGroups(k))
        /\ pc = "loaded" => (i = Len(cfg) /\ err = "")

\* A completed load of a layer with batch normalization, a layer without
\* weights and a layer without batch normalization, with floats left over.
C10_Witness ==
    /\ pc = "loaded"
    /\ p < weights_len
    /\ \E a, b, c \in Layers :
          /\ a < b
          /\ b < c
          /\ cfg[a + 1].type = "convolutional"
          /\ modules_[a + 1].has_bn
          /\ cfg[b + 1].type # "convolutional"
          /\ cfg[c + 1].type = "convolutional"
          /\ ~modules_[c + 1].has_bn

\* The groups of the convolutional layers k.. in layer order, each with its
\* layer.
RECURSIVE FormatGroupsFrom(_)
FormatGroupsFrom(k) ==
    IF k >= Len(cfg) THEN <<>>
    ELSE IF cfg[k + 1].type # "convolutional" THEN FormatGroupsFrom(k + 1)
    ELSE [j \in 1..Len(FormatGroups(k)) |->
             [layer |-> k, param |-> FormatGroups(k)[j].param,
              numel |-> FormatGroups(k)[j].numel]]
         \o FormatGroupsFrom(k + 1)

RECURSIVE TotalNumel(_)
TotalNumel(gs) == IF gs = <<>> THEN 0 ELSE Head(gs).numel + TotalNumel(Tail(gs))

\* How many of the groups gs, taken in order, n floats fill completely.
RECURSIVE Fillable(_, _)
Fillable(gs, n) ==
    IF gs = <<>> \/ Head(gs).numel > n THEN 0
    ELSE 1 + Fillable(Tail(gs), n - Head(gs).numel)

\* C11: with fewer floats in the blob than the layers require, load_weights
\* never returns; when it raises for lack of floats, it has copied exactly
\* the groups the blob fills completely, in order, the failing layer is the
\* layer of the first group the blob cannot fill, and the blob is indeed
\* short; and whenever it raises, no group of a layer after the failing one
\* has been copied, while the earlier copies stay.
C11_ShortBlob ==
    LET all == FormatGroupsFrom(0)
        filled == Fillable(all, weights_len)
    IN /\ (pc = "loaded" => weights_len >= TotalNumel(all))
       /\ (pc = "load_raised" /\ err = "RuntimeError") =>
             /\ weights_len < TotalNumel(all)
             /\ filled < Len(all)
             /\ Len(reads) = filled
             /\ \A k \in 1..filled :
                   /\ reads[k].layer = all[k].layer
                   /\ reads[k].param = all[k].param
                   /\ reads[k].hi - reads[k].lo = all[k].numel
             /\ i = all[filled + 1].layer
       /\ pc = "load_raised" =>
             /\ \A k \in 1..Len(reads) : reads[k].layer <= i
             /\ \A k \in Layers :
                   k < i => ReadsOf(k, reads) =
                               (IF cfg[k + 1].type = "convolutional"
                                THEN FormatGroups(k) ELSE <<>>)

\* A load that ran out of floats in the middle of the second of three
\* convolutional layers: the first layer and part of the second are written.
C11_Witness ==
    /\ pc = "load_raised"
    /\ err = "RuntimeError"
    /\ Len(cfg) = 3
    /\ \A k \in Layers : cfg[k + 1].type = "convolutional"
    /\ i = 1
    /\ ReadsOf(0, reads) # <<>>
    /\ ReadsOf(1, reads) # <<>>

\* The parameters load_weights copied into for layer k.
ParamsRead(k) == {reads[j].param : j \in {m \in 1..Len(reads) : reads[m].layer = k}}

\* C20: load_weights treats every convolutional layer as blocks2modules
\* built it: it never fails on a parameter the module does not have, and
\* for every layer it has gone through it copied the batch-norm group
\* exactly if the module has a BatchNorm2d and no conv bias, and a conv
\* bias exactly if the Conv2d has one.
C20_BnAgreement ==
    pc \in {"load", "loaded", "load_raised"} =>
        /\ err # "AttributeError"
        /\ \A k \in Layers :
              (k < i /\ cfg[k + 1].type = "convolutional") =>
                  /\ "bn.bias" \in ParamsRead(k)
                        <=> (modules_[k + 1].has_bn
                             /\ ~modules_[k + 1].has_bias)
                  /\ "conv.bias" \in ParamsRead(k)
                        <=> modules_[k + 1].has_bias

-----------------------------------------------------------------------------
(* Properties of non-maximum suppression *)

\* Intersection over union of two boxes exceeds t[1]/t[2]; areas and
\* overlap count pixels inclusively (+1 on each extent).
PixelsBetween(lo, hi) == IF hi - lo + 1 > 0 THEN hi - lo + 1 ELSE 0

InclusiveIouExceeds(a, b, t) ==
    LET area_a == (a[3] - a[1] + 1) * (a[4] - a[2] + 1)
        area_b == (b[3] - b[1] + 1) * (b[4] - b[2] + 1)
        ow == PixelsBetween(IF a[1] > b[1] THEN a[1] ELSE b[1],
                            IF a[3] < b[3] THEN a[3] ELSE b[3])
        oh == PixelsBetween(IF a[2] > b[2] THEN a[2] ELSE b[2],
                            IF a[4] < b[4] THEN a[4] ELSE b[4])
        inter == ow * oh
    IN inter * t[2] > t[1] * (area_a + area_b - inter)

SeqRange(s) == {s[k] : k \in 1..Len(s)}

\* C4: non_max_suppression applied to the candidates it kept, with the same
\* threshold, keeps every one of them.
C4_NmsIdempotent ==
    nms_pc = "reapplied" =>
        /\ {nms_keep[k + 1] : k \in SeqRange(nms_keep2)} = SeqRange(nms_keep)
        /\ Len(nms_keep2) = Len(nms_keep)

\* A second application on two or more kept candidates, the first
\* application having suppressed some.
C4_Witness ==
    /\ nms_pc = "reapplied"
    /\ Len(nms_keep) >= 2
    /\ Len(nms_keep) < Len(nms_in.bbox)

\* C5: of two boxes of the same class with IoU > iou_thresh, the one
\* with the lower confidence is removed and the other kept (with equal
\* confidences, one of the two); with IoU <= iou_thresh both are kept.
C5_NmsPairs ==
    (/\ nms_pc = "applied"
     /\ Len(nms_in.bbox) = 2
     /\ (nms_in.use_class => nms_in.class_idx[1] = nms_in.class_idx[2])) =>
        IF InclusiveIouExceeds(nms_in.bbox[1], nms_in.bbox[2],
                               nms_in.iou_thresh)
        THEN /\ Len(nms_keep) = 1
             /\ nms_in.prob[1] > nms_in.prob[2] => nms_keep = <<0>>
             /\ nms_in.prob[2] > nms_in.prob[1] => nms_keep = <<1>>
             /\ nms_keep[1] \in {0, 1}
        ELSE SeqRange(nms_keep) = {0, 1} /\ Len(nms_keep) = 2

\* Two overlapping boxes of one class, the first of lower confidence: it is
\* removed.
C5_Witness ==
    /\ nms_pc = "applied"
    /\ Len(nms_in.bbox) = 2
    /\ nms_in.use_class
    /\ nms_in.class_idx[1] = nms_in.class_idx[2]
    /\ nms_in.prob[1] < nms_in.prob[2]
    /\ nms_in.bbox[1] # nms_in.bbox[2]
    /\ InclusiveIouExceeds(nms_in.bbox[1], nms_in.bbox[2], nms_in.iou_thresh)
    /\ nms_keep = <<1>>

\* C15: non_max_suppression on zero candidates, with class indices or
\* without, completes and returns an empty list of kept indices (and so
\* does applying it again to the nothing it kept).
C15_EmptyNms ==
    Len(nms_in.bbox) = 0 =>
        /\ nms_pc = "start" => ENABLED NmsApply
        /\ nms_pc \in {"applied", "reapplied"} => nms_keep = <<>>
        /\ nms_pc = "reapplied" => nms_keep2 = <<>>

\* non_max_suppression has returned from a call with zero candidates and
\* class_idx=None.
C15_Witness ==
    /\ nms_pc = "applied"
    /\ nms_in \in NmsInputs
    /\ Len(nms_in.bbox) = 0
    /\ ~nms_in.use_class
    /\ nms_keep = <<>>

\* The kept indices of class c, in the order the result lists them.
KeptOfClass(c) ==
    SelectSeqBy(nms_keep,
                {k \in 0..(Len(nms_in.bbox) - 1) : nms_in.class_idx[k + 1] = c})

\* C17: in the result of non_max_suppression with class indices, the kept
\* candidates of each class are listed in non-increasing confidence, the
\* first being a highest-confidence candidate of the class; they are a
\* greedy selection within the class alone: no two of them overlap by more
\* than the threshold, and every candidate left out overlaps by more than
\* the threshold a kept candidate of its own class with at least its
\* confidence, whatever candidates of other classes there are.
C17_PerClassOrder ==
    (nms_pc = "applied" /\ nms_in.use_class) =>
        /\ \A j, k \in 1..Len(nms_keep) : j # k => nms_keep[j] # nms_keep[k]
        /\ \A c \in NmsClasses :
              LET kept == KeptOfClass(c)
                  members == {k \in 0..(Len(nms_in.bbox) - 1) :
                                 nms_in.class_idx[k + 1] = c}
              IN /\ members # {} =>
                       /\ kept # <<>>
                       /\ \A m \in members :
                             nms_in.prob[kept[1] + 1] >= nms_in.prob[m + 1]
                 /\ \A j, k \in 1..Len(kept) :
                       j < k =>
                          /\ nms_in.prob[kept[j] + 1] >= nms_in.prob[kept[k] + 1]
                          /\ ~InclusiveIouExceeds(nms_in.bbox[kept[j] + 1],
                                                  nms_in.bbox[kept[k] + 1],
                                                  nms_in.iou_thresh)
                 /\ \A m \in members \ SeqRange(kept) :
                       \E j \in 1..Len(kept) :
                          /\ nms_in.prob[kept[j] + 1] >= nms_in.prob[m + 1]
                          /\ InclusiveIouExceeds(nms_in.bbox[kept[j] + 1],
                                                 nms_in.bbox[m + 1],
                                                 nms_in.iou_thresh)

\* A class with two kept candidates of different confidence, and a kept
\* candidate of another class that overlaps one of them by more than the
\* threshold and has a higher confidence than it.
C17_Witness ==
    /\ nms_pc = "applied"
    /\ nms_in.use_class
    /\ Len(nms_keep) = 3
    /\ \E c \in NmsClasses :
          /\ Len(KeptOfClass(c)) = 2
          /\ nms_in.prob[KeptOfClass(c)[1] + 1]
                > nms_in.prob[KeptOfClass(c)[2] + 1]
          /\ \E k \in SeqRange(nms_keep) \ SeqRange(KeptOfClass(c)) :
                /\ InclusiveIouExceeds(nms_in.bbox[k + 1],
                                       nms_in.bbox[KeptOfClass(c)[2] + 1],
                                       nms_in.iou_thresh)
                /\ nms_in.prob[k + 1] > nms_in.prob[KeptOfClass(c)[2] + 1]

-----------------------------------------------------------------------------
(* Properties of the config parser *)

\* Every text block of the file as a block, in file order.
AllBlocks ==
    [k \in 1..Len(text_blocks) |-> ParseTextBlock(text_blocks[k]).block]

IsNetBlock(b) == b[TypeKey] = StrVal(NetType)

\* The sequence s without its k-th element.
Without(s, k) == SubSeq(s, 1, k - 1) \o SubSeq(s, k + 1, Len(s))

\* C12: parse_config returns the first block of type net as the network
\* info (None without one) and every other block of the file, in file
\* order, as the block list.
C12_FirstNet ==
    parse_pc = "returned" =>
        LET nets == {k \in 1..Len(AllBlocks) : IsNetBlock(AllBlocks[k])} IN
        IF nets = {}
        THEN net_info = <<>> /\ parsed_blocks = AllBlocks
        ELSE LET first == CHOOSE k \in nets : \A m \in nets : k <= m
             IN /\ net_info = <<AllBlocks[first]>>
                /\ parsed_blocks = Without(AllBlocks, first)

\* A header line of the form [identifier].
WellFormedHeader(line) ==
    /\ Len(line) >= 3
    /\ line[1] = "["
    /\ line[Len(line)] = "]"
    /\ \A k \in 2..(Len(line) - 1) :
          line[k] \notin {"[", "]", "=", ",", "#", "-", " ", "\n"}

\* Some line with a "=" comes before the first header line.
KeyValueBeforeHeader ==
    \E k \in 1..Len(lines) :
        /\ Contains(lines[k], "=")
        /\ \A m \in 1..k : ~StartsWith(lines[m], "[")

\* C13: parse_config returns only for files in which no key=value line
\* comes before the first header and every header line has the form
\* [identifier].
C13_RejectsMalformed ==
    parse_pc = "returned" =>
        /\ ~KeyValueBeforeHeader
        /\ \A k \in 1..Len(lines) :
              StartsWith(lines[k], "[") => WellFormedHeader(lines[k])

-----------------------------------------------------------------------------
(* Properties of the frame hand-off *)

\* C18: a frame the main loop wrote into VideoShower.frame leaves the slot
\* undisplayed only by a newer write taking its place: whenever the slot is
\* empty, the last frame written has been displayed.
C18_HandOff ==
    (main_pc \notin {"idle", "make_shower"} /\ writes >= 1
     /\ shower.frame = None) =>
        \E k \in 1..Len(shown) : shown[k] = writes

\* C21: the frame the main loop takes from video_getter.frame after
\* passing the stopped check is the frame of a read that succeeded, never
\* the None of a failed read, so inference never runs on (and never raises
\* on) the result of a failed read.
C21_NoFailedFrame ==
    /\ main_pc = "infer" => main_frame # None
    /\ main_pc # "raised"

====
